---- MODULE Spec2Model ----
(***************************************************************************)
(* A model of numba_on_dask.ipynb: a fixed sparse operator in coordinate   *)
(* form (col, row, S) applied to a dense batch `data`, by the serial       *)
(* kernel sparse_dot, the prange kernel sparse_dot_pa, the per-row kernel  *)
(* sparse_dot_guvec, and by apply_A mapped over the row chunks of a dask   *)
(* array.                                                                  *)
(*                                                                         *)
(* Arrays are functions on 0..n-1, as numpy indexes them.  A 2-D array is  *)
(* a function from row numbers to 1-D arrays; every batch has >= 1 row.    *)
(* Floating point values are modelled by integers (exact arithmetic).      *)
(***************************************************************************)
EXTENDS Integers, Sequences, FiniteSets, TLC

\* Width of the batch the notebook builds, np.random.rand(500, 240000),
\* scaled down to 2 columns.
InWidth == 2

\* Width of the output apply_A allocates, np.zeros([data.shape[0], 120000]),
\* scaled down to 2 columns.
OutWidth == 2

\* Bounds of the model.
MaxNnz == 2
MaxRows == 2
MaxCalls == 2
MaxWorkers == 2

\* Values of a batch cell, and the weights of a nonzero.
Vals == {0, 1}
Weights == {1, 2}
\* What a cell of memory nobody initialised may hold.
Junk == {0, 1}

VARIABLES
    ds,         \* the contents of weights.nc: [col, row, S]
    col, row, S,\* the notebook's global operator arrays
    data,       \* the notebook's global batch
    pc,         \* where the notebook is
    j, i,       \* sparse_dot's loop counters
    data_out,   \* the output buffer of the running kernel
    results,    \* the outputs apply_A has returned, oldest first
    stray,      \* a store has landed outside the array it indexed
    wk,         \* sparse_dot_pa: each worker's rows and position
    writers,    \* sparse_dot_pa: who has stored to each output cell
    gi,         \* sparse_dot_guvec: each row's position in its loop
    out_guvec,  \* what sparse_dot_guvec returned
    chunks,     \* the dask array's chunk sizes along the row axis
    chunk_out,  \* the chunk outputs computed so far
    dr_out_pa,  \* the concatenated result of the chunked computation
    lin         \* the two sides of a linearity experiment

vars == <<ds, col, row, S, data, pc, j, i, data_out, results, stray,
          wk, writers, gi, out_guvec, chunks, chunk_out, dr_out_pa, lin>>

None == <<>>

----------------------------------------------------------------------------
(* Arrays *)

Size(a) == Cardinality(DOMAIN a)
Shape0(m) == Size(m)
Shape1(m) == Size(m[0])

Rows(m) == 0..(Shape0(m) - 1)
OutCols == 0..(OutWidth - 1)

Arr(n, V) == [0..(n - 1) -> V]
Mat(n, w, V) == [0..(n - 1) -> Arr(w, V)]

\* np.zeros([n, m]), with the mutant that allocates one column too few.
np_zeros_short(n, m) == [jj \in 0..(n - 1) |-> [r \in 0..(m - 2) |-> 0]]
\* np.zeros([n, m]), with the mutant that starts from ones.
np_ones(n, m) == [jj \in 0..(n - 1) |-> [r \in 0..(m - 1) |-> 1]]
\* np.zeros([n, m]), with the mutant that hands back the buffer of the
\* previous call instead of a fresh one.
np_zeros_stale(n, m) ==
    IF Len(results) > 0 THEN results[Len(results)]
    ELSE [jj \in 0..(n - 1) |-> [r \in 0..(m - 1) |-> 0]]
np_zeros(n, m) == [jj \in 0..(n - 1) |-> [r \in 0..(m - 1) |-> 0]]

(* numba's nopython indexing m[jj, c]: a negative index wraps around once, *)
(* nothing is bounds-checked, and the element at the resulting offset of   *)
(* the C-contiguous buffer is accessed.  Outside the buffer a load yields  *)
(* whatever the memory holds and a store corrupts memory.                  *)
Wrap(idx, dim) == IF idx < 0 THEN idx + dim ELSE idx
Flat(m, jj, c) == jj * Shape1(m) + Wrap(c, Shape1(m))
InBuffer(m, f) == 0 <= f /\ f < Shape0(m) * Shape1(m)
At(m, f) == m[f \div Shape1(m)][f % Shape1(m)]
Loads(m, jj, c) ==
    IF InBuffer(m, Flat(m, jj, c)) THEN {At(m, Flat(m, jj, c))} ELSE Junk
Store(m, jj, c, v) ==
    IF InBuffer(m, Flat(m, jj, c))
    THEN [m EXCEPT ![Flat(m, jj, c) \div Shape1(m)][Flat(m, jj, c) % Shape1(m)] = v]
    ELSE m
Strays(m, jj, c) == ~InBuffer(m, Flat(m, jj, c))

----------------------------------------------------------------------------
(* The inputs *)

\* weights.nc files with n_s nonzeros whose indices lie in C and R.
Files(n_s, C, R) == [col : Arr(n_s, C), row : Arr(n_s, R), S : Arr(n_s, Weights)]

\* The scenario operator col=[0,1,1], row=[0,0,1], weight=[1,2,3], as the
\* 1-based file it is loaded from.
ExampleFile ==
    [col |-> [k \in 0..2 |-> IF k = 0 THEN 1 ELSE 2],
     row |-> [k \in 0..2 |-> IF k = 2 THEN 2 ELSE 1],
     S   |-> [k \in 0..2 |-> k + 1]]

\* Files with 1-based indices, all within the grid sizes.
OneBasedFiles ==
    UNION {Files(n, 1..InWidth, 1..OutWidth) : n \in 0..MaxNnz} \cup {ExampleFile}

\* Files with any indexing: 0-based, 1-based, or beyond the grid sizes.
AnyFiles == UNION {Files(n, 0..(InWidth + 1), 0..(OutWidth + 1)) : n \in 0..MaxNnz}

\* 1-based files whose weight is fixed by the position of the nonzero.
RampFiles ==
    {f \in UNION {Files(n, 1..InWidth, 1..OutWidth) : n \in 0..MaxNnz} :
        \A k \in DOMAIN f.S : f.S[k] = 1 + (k % 2)}

\* Batches of the notebook's width, and of any width around it.
Batches == UNION {Mat(n, InWidth, Vals) : n \in 1..MaxRows}
AnyBatches ==
    UNION {Mat(n, w, Vals) : n \in 1..MaxRows, w \in (InWidth - 1)..(InWidth + 1)}
\* One batch per row count, every cell different and nonzero.
RampBatch(n) == [jj \in 0..(n - 1) |-> [c \in 0..(InWidth - 1) |-> 1 + jj * InWidth + c]]

IndicesInBounds ==
    /\ \A k \in DOMAIN col : 0 <= col[k] /\ col[k] < InWidth
    /\ \A k \in DOMAIN row : 0 <= row[k] /\ row[k] < OutWidth

OneBased(f) ==
    /\ \A k \in DOMAIN f.col : 1 <= f.col[k] /\ f.col[k] <= InWidth
    /\ \A k \in DOMAIN f.row : 1 <= f.row[k] /\ f.row[k] <= OutWidth
ZeroBased(f) ==
    /\ \A k \in DOMAIN f.col : 0 <= f.col[k] /\ f.col[k] < InWidth
    /\ \A k \in DOMAIN f.row : 0 <= f.row[k] /\ f.row[k] < OutWidth

----------------------------------------------------------------------------
(* Cell 2: the operator is read from weights.nc *)

\* ds[name].values - 1, with the mutant that forgets the shift.
Unshifted(a) == a
ToZeroBased(a) == [k \in DOMAIN a |-> a[k] - 1]

Idle ==
    /\ j = 0 /\ i = 0 /\ data_out = None /\ results = <<>> /\ stray = FALSE
    /\ wk = None /\ writers = None /\ gi = None /\ out_guvec = None
    /\ chunks = <<>> /\ chunk_out = None /\ dr_out_pa = None /\ lin = None

InitWith(F, B) ==
    /\ ds \in F
    /\ data \in B
    /\ col = None /\ row = None /\ S = None
    /\ pc = "load"
    /\ Idle

LoadOperator ==
    /\ pc = "load"
    /\ col' = ToZeroBased(ds.col)
    /\ row' = ToZeroBased(ds.row)
    /\ S' = ds.S
    /\ pc' = "idle"
    /\ UNCHANGED <<ds, data, j, i, data_out, results, stray,
                   wk, writers, gi, out_guvec, chunks, chunk_out, dr_out_pa, lin>>

----------------------------------------------------------------------------
(* Cell 4: apply_A(data) with parallel=False, running sparse_dot *)

\* The loop body at (jj, k): data_out[jj, row[k]] += data[jj, col[k]] * S[k].
\* Update is the value it stores, given the two values it loaded; with the
\* mutant that assigns instead of accumulating.
UpdateAssign(k, old, x) == x * S[k]
Update(k, old, x) == old + x * S[k]
Body(out, jj, k, old, x) == Store(out, jj, row[k], Update(k, old, x))

\* sparse_dot run to completion on batch d with indices in bounds: the
\* loop over i for one row, then the loop over j.
RECURSIVE InnerLoop(_, _, _, _)
InnerLoop(out, d, jj, k) ==
    IF k >= Size(S) THEN out
    ELSE InnerLoop(Body(out, jj, k, out[jj][row[k]], d[jj][col[k]]), d, jj, k + 1)

RECURSIVE sparse_dot(_, _, _)
sparse_dot(out, d, jj) ==
    IF jj >= Shape0(d) THEN out
    ELSE sparse_dot(InnerLoop(out, d, jj, 0), d, jj + 1)

\* apply_A(d) run to completion: a zeroed output, then sparse_dot.
apply_A(d) == sparse_dot(np_zeros(Shape0(d), OutWidth), d, 0)

\* range(data.shape[0]) x range(S.size) is exhausted.
Finished == j >= Shape0(data) \/ Size(S) = 0

Call ==
    /\ pc = "idle"
    /\ Len(results) < MaxCalls
    /\ data_out' = np_zeros(Shape0(data), OutWidth)
    /\ j' = 0 /\ i' = 0
    /\ pc' = "run"
    /\ UNCHANGED <<ds, col, row, S, data, results, stray,
                   wk, writers, gi, out_guvec, chunks, chunk_out, dr_out_pa, lin>>

Step ==
    /\ pc = "run"
    /\ ~Finished
    /\ \E x \in Loads(data, j, col[i]) : \E old \in Loads(data_out, j, row[i]) :
           data_out' = Body(data_out, j, i, old, x)
    /\ stray' = (stray \/ Strays(data_out, j, row[i]))
    /\ IF i + 1 < Size(S) THEN i' = i + 1 /\ j' = j
                          ELSE i' = 0 /\ j' = j + 1
    /\ UNCHANGED <<ds, col, row, S, data, pc, results,
                   wk, writers, gi, out_guvec, chunks, chunk_out, dr_out_pa, lin>>

Return ==
    /\ pc = "run"
    /\ Finished
    /\ results' = Append(results, data_out)
    /\ pc' = "idle"
    /\ UNCHANGED <<ds, col, row, S, data, j, i, data_out, stray,
                   wk, writers, gi, out_guvec, chunks, chunk_out, dr_out_pa, lin>>

\* The notebook as it is run: a 1-based weights file within the grid sizes
\* and a batch of the input grid's width.
Init == InitWith(OneBasedFiles, Batches)
Next == LoadOperator \/ Call \/ Step \/ Return
Spec == Init /\ [][Next]_vars

\* apply_A as a function anyone may call: any file, any batch width.
InitUnchecked == InitWith(AnyFiles, AnyBatches)
SpecUnchecked == InitUnchecked /\ [][Next]_vars

\* Cell 2 alone, on any file.
InitLoad == InitWith(AnyFiles \cup {ExampleFile}, {RampBatch(1)})
NextLoad == LoadOperator
SpecLoad == InitLoad /\ [][NextLoad]_vars

----------------------------------------------------------------------------
(* Cell 5: apply_A(data, parallel=True), running sparse_dot_pa *)

\* The elements of a set of numbers, ascending.
RECURSIVE Ascending(_)
Ascending(K) ==
    IF K = {} THEN <<>>
    ELSE LET lo == CHOOSE x \in K : \A y \in K : x <= y
         IN  <<lo>> \o Ascending(K \ {lo})

\* The ways of giving each of n iterations to one of nw workers, one way
\* per renaming of the workers: iteration 0 goes to worker 1, and a worker
\* gets its first iteration only after every worker before it has one.
Owners(n, nw) ==
    {own \in [0..(n - 1) -> 1..nw] :
        \A jj \in 0..(n - 1) :
            own[jj] = 1 \/ \E kk \in 0..(jj - 1) : own[kk] = own[jj] - 1}

\* prange(n) over nw workers: each iteration is run by one worker, who runs
\* its iterations in ascending order; with the mutant in which every worker
\* runs the whole range.
prange_all(n, nw) == {[w \in 1..nw |-> Ascending(0..(n - 1))]}
prange(n, nw) ==
    {[w \in 1..nw |-> Ascending({jj \in 0..(n - 1) : own[jj] = w})] :
        own \in Owners(n, nw)}

WorkerDone(w) == wk[w].rows = <<>> \/ Size(S) = 0

CallPa ==
    /\ pc = "idle"
    /\ Len(results) < MaxCalls
    /\ data_out' = np_zeros(Shape0(data), OutWidth)
    /\ \E nw \in 1..MaxWorkers : \E split \in prange(Shape0(data), nw) :
           wk' = [w \in 1..nw |-> [rows |-> split[w], i |-> 0, phase |-> "load", acc |-> 0]]
    /\ writers' = [cell \in Rows(data) \X OutCols |-> {}]
    /\ pc' = "run_pa"
    /\ UNCHANGED <<ds, col, row, S, data, j, i, results, stray,
                   gi, out_guvec, chunks, chunk_out, dr_out_pa, lin>>

\* Worker w loads data_out[jj, row[k]] and data[jj, col[k]] and adds.
PaLoad(w) ==
    /\ pc = "run_pa"
    /\ ~WorkerDone(w)
    /\ wk[w].phase = "load"
    /\ LET jj == Head(wk[w].rows)
           k  == wk[w].i
       IN  \E x \in Loads(data, jj, col[k]) : \E old \in Loads(data_out, jj, row[k]) :
               wk' = [wk EXCEPT ![w].acc = Update(k, old, x), ![w].phase = "store"]
    /\ UNCHANGED <<ds, col, row, S, data, pc, j, i, data_out, results, stray,
                   writers, gi, out_guvec, chunks, chunk_out, dr_out_pa, lin>>

\* Worker w stores the sum back and moves to its next iteration.
PaStore(w) ==
    /\ pc = "run_pa"
    /\ ~WorkerDone(w)
    /\ wk[w].phase = "store"
    /\ LET jj == Head(wk[w].rows)
           k  == wk[w].i
       IN  /\ data_out' = Store(data_out, jj, row[k], wk[w].acc)
           /\ stray' = (stray \/ Strays(data_out, jj, row[k]))
           /\ writers' = [cell \in DOMAIN writers |->
                            IF cell = <<jj, Wrap(row[k], OutWidth)>>
                            THEN writers[cell] \cup {w} ELSE writers[cell]]
           /\ wk' = [wk EXCEPT
                       ![w].phase = "load",
                       ![w].i = IF k + 1 < Size(S) THEN k + 1 ELSE 0,
                       ![w].rows = IF k + 1 < Size(S) THEN @ ELSE Tail(@)]
    /\ UNCHANGED <<ds, col, row, S, data, pc, j, i, results,
                   gi, out_guvec, chunks, chunk_out, dr_out_pa, lin>>

ReturnPa ==
    /\ pc = "run_pa"
    /\ \A w \in DOMAIN wk : WorkerDone(w)
    /\ results' = Append(results, data_out)
    /\ pc' = "idle"
    /\ UNCHANGED <<ds, col, row, S, data, j, i, data_out, stray,
                   wk, writers, gi, out_guvec, chunks, chunk_out, dr_out_pa, lin>>

InitPa == InitWith(RampFiles, {RampBatch(n) : n \in 1..MaxRows})
NextPa ==
    \/ LoadOperator
    \/ CallPa
    \/ \E w \in DOMAIN wk : PaLoad(w)
    \/ \E w \in DOMAIN wk : PaStore(w)
    \/ ReturnPa
SpecPa == InitPa /\ [][NextPa]_vars

----------------------------------------------------------------------------
(* Cells 7-9: sparse_dot_guvec(data, col, row, S, shape_arr) *)

\* shape_arr = np.arange(120000) only carries the output width m.
shape_arr == [r \in OutCols |-> r]

\* The call passes no output array, so numpy's gufunc machinery allocates
\* the (rows, m) output itself, without initialising it.
CallGuvec ==
    /\ pc = "idle"
    /\ Len(results) >= 1
    /\ out_guvec = None
    /\ data_out' \in Mat(Shape0(data), Size(shape_arr), Junk)
    /\ gi' = [jj \in Rows(data) |-> 0]
    /\ pc' = "run_guvec"
    /\ UNCHANGED <<ds, col, row, S, data, j, i, results, stray,
                   wk, writers, out_guvec, chunks, chunk_out, dr_out_pa, lin>>

\* One iteration of the kernel's loop for row jj; the rows are run
\* independently (target='parallel'), in any order.
GuvecStep(jj) ==
    /\ pc = "run_guvec"
    /\ gi[jj] < Size(S)
    /\ \E x \in Loads(data, jj, col[gi[jj]]) :
       \E old \in Loads(data_out, jj, row[gi[jj]]) :
           data_out' = Body(data_out, jj, gi[jj], old, x)
    /\ stray' = (stray \/ Strays(data_out, jj, row[gi[jj]]))
    /\ gi' = [gi EXCEPT ![jj] = @ + 1]
    /\ UNCHANGED <<ds, col, row, S, data, pc, j, i, results,
                   wk, writers, out_guvec, chunks, chunk_out, dr_out_pa, lin>>

ReturnGuvec ==
    /\ pc = "run_guvec"
    /\ \A jj \in Rows(data) : gi[jj] = Size(S)
    /\ out_guvec' = data_out
    /\ pc' = "idle"
    /\ UNCHANGED <<ds, col, row, S, data, j, i, data_out, results, stray,
                   wk, writers, gi, chunks, chunk_out, dr_out_pa, lin>>

\* out_numba = apply_A(data) first, as in the notebook, then the gufunc.
NextGuvec ==
    \/ LoadOperator \/ Call \/ Step \/ Return
    \/ CallGuvec
    \/ \E jj \in Rows(data) : GuvecStep(jj)
    \/ ReturnGuvec
SpecGuvec == Init /\ [][NextGuvec]_vars

----------------------------------------------------------------------------
(* Cells 11-14: apply_A over the row chunks of a dask array *)

\* The ways of cutting n rows into consecutive non-empty chunks.
RECURSIVE Compositions(_)
Compositions(n) ==
    IF n = 0 THEN {<<>>}
    ELSE UNION {{<<c>> \o rest : rest \in Compositions(n - c)} : c \in 1..n}

\* The first row of chunk k.
RECURSIVE Offset(_, _)
Offset(cs, k) == IF k = 1 THEN 0 ELSE Offset(cs, k - 1) + cs[k - 1]

\* Chunk k of d: its rows, numbered from 0.
Block(d, cs, k) == [jj \in 0..(cs[k] - 1) |-> d[Offset(cs, k) + jj]]

\* b's rows after a's; with the mutant that puts them before.
StackSwapped(a, b) ==
    [jj \in 0..(Shape0(a) + Shape0(b) - 1) |->
        IF jj < Shape0(b) THEN b[jj] ELSE a[jj - Shape0(b)]]
Stack(a, b) ==
    [jj \in 0..(Shape0(a) + Shape0(b) - 1) |->
        IF jj < Shape0(a) THEN a[jj] ELSE b[jj - Shape0(a)]]

\* The outputs of chunks 1..k concatenated along the row axis.
RECURSIVE Concatenate(_, _)
Concatenate(parts, k) ==
    IF k = 1 THEN parts[1] ELSE Stack(Concatenate(parts, k - 1), parts[k])

\* da.from_array(data, chunks=...) and the lazy xr.apply_ufunc over it.
FromArray ==
    /\ pc = "idle"
    /\ chunks = <<>>
    /\ chunks' \in Compositions(Shape0(data))
    /\ chunk_out' = [k \in 1..Len(chunks') |-> None]
    /\ pc' = "dask"
    /\ UNCHANGED <<ds, col, row, S, data, j, i, data_out, results, stray,
                   wk, writers, gi, out_guvec, dr_out_pa, lin>>

\* A dask worker runs apply_A on one chunk; the chunks are taken in any
\* order.
ComputeChunk(k) ==
    /\ pc = "dask"
    /\ chunk_out[k] = None
    /\ chunk_out' = [chunk_out EXCEPT ![k] = apply_A(Block(data, chunks, k))]
    /\ UNCHANGED <<ds, col, row, S, data, pc, j, i, data_out, results, stray,
                   wk, writers, gi, out_guvec, chunks, dr_out_pa, lin>>

\* Every chunk is done: the outputs are concatenated in chunk order.
Compute ==
    /\ pc = "dask"
    /\ \A k \in DOMAIN chunk_out : chunk_out[k] # None
    /\ dr_out_pa' = Concatenate(chunk_out, Len(chunks))
    /\ pc' = "computed"
    /\ UNCHANGED <<ds, col, row, S, data, j, i, data_out, results, stray,
                   wk, writers, gi, out_guvec, chunks, chunk_out, lin>>

NextChunk ==
    \/ LoadOperator
    \/ FromArray
    \/ \E k \in DOMAIN chunk_out : ComputeChunk(k)
    \/ Compute
InitChunk == InitWith(RampFiles, Batches)
SpecChunk == InitChunk /\ [][NextChunk]_vars

----------------------------------------------------------------------------
(* apply_A on a linear combination of two batches *)

Scalars == {-1, 2}

\* The batches combined with `data`: the ramp, and those whose rows are all
\* the same.
SecondBatches(n) ==
    {RampBatch(n)} \cup {[jj \in 0..(n - 1) |-> v] : v \in Arr(InWidth, Vals)}

Scale(a, m) == [jj \in DOMAIN m |-> [c \in DOMAIN m[jj] |-> a * m[jj][c]]]
Plus(m1, m2) == [jj \in DOMAIN m1 |-> [c \in DOMAIN m1[jj] |-> m1[jj][c] + m2[jj][c]]]

\* apply_A on a*data + b*batch2, and on data and batch2 apart.
Combine ==
    /\ pc = "idle"
    /\ \E batch2 \in SecondBatches(Shape0(data)) : \E a, b \in Scalars :
           lin' = [a |-> a, b |-> b, batch2 |-> batch2,
                   both |-> apply_A(Plus(Scale(a, data), Scale(b, batch2))),
                   first |-> apply_A(data),
                   second |-> apply_A(batch2)]
    /\ pc' = "combined"
    /\ UNCHANGED <<ds, col, row, S, data, j, i, data_out, results, stray,
                   wk, writers, gi, out_guvec, chunks, chunk_out, dr_out_pa>>

InitLin == InitWith(RampFiles, Batches)
NextLin == LoadOperator \/ Combine
SpecLin == InitLin /\ [][NextLin]_vars

----------------------------------------------------------------------------
(* Properties of apply_A and of the load *)

Loaded == pc # "load"

\* The sum, over the nonzeros k in K, of d[jj, col[k]] * S[k].
RECURSIVE Contribution(_, _, _)
Contribution(d, jj, K) ==
    IF K = {} THEN 0
    ELSE LET k == CHOOSE x \in K : TRUE
         IN  d[jj][col[k]] * S[k] + Contribution(d, jj, K \ {k})

\* What output cell (jj, r) is to hold for batch d.
Expected(d, jj, r) == Contribution(d, jj, {k \in DOMAIN S : row[k] = r})

ExampleBatch == [jj \in {0} |-> [c \in 0..1 |-> 1]]
ExampleOutput == [jj \in {0} |-> [r \in 0..1 |-> 3]]

\* C1: every output apply_A returns holds, in cell (jj, r), the sum over the
\* nonzeros k with row[k] = r of data[jj, col[k]] * S[k] (0 when there is
\* none), also when several nonzeros share a destination row; and the
\* operator col=[0,1,1], row=[0,0,1], weight=[1,2,3] maps [[1,1]] to [[3,3]].
C1_OutputIsWeightedSum ==
    \A n \in 1..Len(results) :
        /\ \A jj \in Rows(data) : \A r \in OutCols :
               results[n][jj][r] = Expected(data, jj, r)
        /\ (ds = ExampleFile /\ data = ExampleBatch) => results[n] = ExampleOutput

\* C1's case: the scenario operator has been applied to [[1,1]], two of its
\* nonzeros sharing destination row 0.
C1_Witness ==
    /\ Len(results) >= 1
    /\ ds = ExampleFile /\ data = ExampleBatch
    /\ row[0] = row[1]
    /\ results[1] = ExampleOutput

\* C3 as stated: a batch whose width differs from the operator's input width
\* never reaches the kernel: no output is allocated or written, and none is
\* returned.
C3_MismatchRejected ==
    (Loaded /\ Shape1(data) # InWidth) =>
        (pc # "run" /\ data_out = None /\ results = <<>>)

\* C4 as stated: an operator holding an index outside its bounds is stopped
\* at load, so the kernel never runs with it.
C4_InvalidOperatorRejected ==
    (pc = "run") => IndicesInBounds

SameResults == \A n \in 1..Len(results) : results[n] = results[1]

\* A step leaves the batch, the operator and the outputs already returned
\* as they are.
FrameKept ==
    Loaded =>
        /\ data' = data /\ col' = col /\ row' = row /\ S' = S
        /\ \A n \in 1..Len(results) : results'[n] = results[n]

\* C9: across the calls of apply_A, no step changes the batch, the operator
\* arrays or an output returned earlier, and a repeated call returns the
\* same output as the first (nothing accumulates from call to call).
C9_StatelessIdempotent == [](SameResults) /\ [][FrameKept]_vars

\* C9's case: apply_A has returned twice for an operator and a batch that
\* give a nonzero output.
C9_Witness ==
    /\ Len(results) = 2
    /\ \E jj \in Rows(data) : \E r \in OutCols : results[1][jj][r] # 0

C2_ChunkInvariance ==
    (pc = "computed") =>
        /\ dr_out_pa = apply_A(data)
        /\ \A k \in 1..Len(chunks) : \A jj \in 0..(chunks[k] - 1) :
               dr_out_pa[Offset(chunks, k) + jj] = chunk_out[k][jj]

\* C2's case: a batch cut into several chunks has been computed, and its
\* first two output rows differ, so that their order shows.
C2_Witness ==
    /\ pc = "computed"
    /\ Len(chunks) >= 2
    /\ dr_out_pa[0] # dr_out_pa[1]

\* C6 as stated: the gufunc's output equals the reference output out_numba.
C6_GuvecEqualsReference ==
    (out_guvec # None) => out_guvec = results[1]

\* C7: apply_A(a*batch1 + b*batch2) = a*apply_A(batch1) + b*apply_A(batch2).
C7_Linearity ==
    (pc = "combined") =>
        lin.both = Plus(Scale(lin.a, lin.first), Scale(lin.b, lin.second))

\* C7's case: two different batches combined with nonzero scalars under an
\* operator with nonzeros, the combination giving a nonzero output.
C7_Witness ==
    /\ pc = "combined"
    /\ lin.a # 0 /\ lin.b # 0 /\ lin.batch2 # data
    /\ Size(S) >= 2
    /\ \E jj \in Rows(data) : \E r \in OutCols : lin.both[jj][r] # 0

\* The two renderings of sparse_dot agree: what the loop of Call, Step and
\* Return returns is apply_A(data).
LoopIsApplyA == \A n \in 1..Len(results) : results[n] = apply_A(data)

====
